---- MODULE Spec2Model ----
(***************************************************************************)
(* A model of postmates/circuitbreaker (circuitbreaker/circuitbreaker.py). *)
(*                                                                         *)
(* Spec        one decorated breaker A called by two concurrent processes  *)
(*             (the forked parent and child of test_script.py).  Every     *)
(*             access of a multiprocessing.Value is one atomic step, the   *)
(*             `with self._lock` blocks are one atomic step each.          *)
(* MonitorSpec several breakers, the CircuitBreakerMonitor registry and a  *)
(*             single thread that decorates, calls, renders the error it   *)
(*             caught and queries the registry.                            *)
(***************************************************************************)
EXTENDS Integers, Sequences, FiniteSets, TLC

\* ------------------------------------------------------------------ bounds
\* failure_threshold of a breaker ranges over 1..MaxThreshold
MaxThreshold == 2
\* recovery_timeout of a breaker ranges over 1..MaxTimeout (clock ticks)
MaxTimeout == 2
\* the clock runs from 0 to MaxTime
MaxTime == 4
\* the clock counts TicksPerSecond ticks in a second; _opened, now and
\* _recovery_timeout are in ticks
TicksPerSecond == 2

\* --------------------------------------------------------------- constants
\* circuitbreaker/states.py (not among the sources): three distinct names
STATE_CLOSED == "closed"
STATE_OPEN == "open"
STATE_HALF_OPEN == "half_open"

None == "None"

\* the breaker objects; A is the decorated breaker of test_script.py
A == "A"
Breakers == {"A", "B"}
\* the processes that call the wrapper of A (os.fork() in test_script.py)
Callers == {"parent", "child"}
\* what the wrapped function does: returns, raises an expected exception,
\* raises another exception
Outcomes == {"success", "guarded", "unguarded"}
\* names a decorated function may have
Names == {"f", "g"}

VARIABLES
    \* per breaker object (CircuitBreaker.__init__)
    _failure_threshold, _recovery_timeout, _name,
    _failure_count, _state, _opened,
    \* CircuitBreakerMonitor.circuit_breakers: name -> breaker or None
    circuit_breakers,
    \* datetime.utcnow(), in ticks
    now,
    \* per caller: position in CircuitBreaker.call
    pc,
    \* per caller: who evaluates self.state ("opened" or "finally")
    at,
    \* per caller: self._opened.value as read by open_until
    st_opened,
    \* per caller: the value self.state returned to `if self.opened` of
    \* the current call
    seen,
    \* per caller: how the call went ("rejected" or one of Outcomes)
    outcome,
    \* per caller: the state handed to record_circuit_breaker_failure_total
    \* or record_circuit_breaker_success_total by __call_failed or
    \* __call_succeeded, until its `with self._lock` block has run
    recorded,
    \* per caller: the states the current call has handed to
    \* record_circuit_breaker_state, in order
    reported,
    \* per caller: the phase of the breaker (stored state, window running or
    \* over) throughout the current evaluation of self.state, "mixed" when it
    \* changed or a stored field was written meanwhile
    stable,
    \* the results of the CircuitBreakerMonitor query the thread has just
    \* made (a sequence of at most one record)
    query,
    \* the breaker of the CircuitBreakerError the thread has caught last
    \* (CircuitBreakerError._circuit_breaker), None before the first
    error,
    \* what str() of that error has just shown (a sequence of at most one
    \* record)
    message,
    \* per breaker, as counted by its callers: the expected exceptions the
    \* wrapped function has raised, and call has handled, since it last
    \* returned (or since construction), and the time of the last of them
    failures, failed_at,
    \* multiprocessing.RLock(): the caller that holds self._lock, None when
    \* it is free
    _lock,
    \* per caller: what the caller has read from self._opened (in open_until)
    \* or from self._failure_count (in `+= 1`) and not used yet, 0 otherwise
    tmp,
    \* per caller: a failure-transition has opened the breaker (set _state
    \* to STATE_OPEN and stamped _opened) since the caller began the call it
    \* is in
    restamped

breakerVars == <<_failure_threshold, _recovery_timeout, _name,
                 _failure_count, _state, _opened>>
testVars == <<failures, failed_at>>
threadVars == <<query, error, message>>
callerVars == <<pc, at, st_opened, seen, outcome, recorded, reported, stable>>
lockVars == <<_lock, tmp>>
vars == <<_failure_threshold, _recovery_timeout, _name, _failure_count,
          _state, _opened, circuit_breakers, now, pc, at, st_opened, seen,
          outcome, recorded, reported, stable, query, error, message,
          failures, failed_at, _lock, tmp, restamped>>

\* ------------------------------------------------- CircuitBreaker, read side

\* open_until: self._opened.value + self._recovery_timeout
open_until(op, rt) == op + rt

\* open_remaining: self.open_until - unix_time_seconds(datetime.utcnow())
open_remaining(op, rt, t) == open_until(op, rt) - t

\* faulty variant: the comparison the wrong way round
Elapsed_Reversed(op, rt, t) == open_remaining(op, rt, t) >= 0

\* faulty variant: the boundary left out
Elapsed_Strict(op, rt, t) == open_remaining(op, rt, t) < 0

\* the test of `state`: self.open_remaining <= 0
Elapsed(op, rt, t) == open_remaining(op, rt, t) <= 0

\* faulty variant: the stored state returned as it is
StateOf_Stored(st, op, rt, t) == st

\* the property `state` evaluated with no step of another process in between
StateOf(st, op, rt, t) ==
    IF st = STATE_OPEN /\ Elapsed(op, rt, t) THEN STATE_HALF_OPEN ELSE st

state(b) == StateOf(_state[b], _opened[b], _recovery_timeout[b], now)

closed(b) == state(b) = STATE_CLOSED

opened(b) == state(b) = STATE_OPEN

\* ------------------------------------------------ CircuitBreaker, write side

\* faulty variant: the state is closed, the count is kept
SucceededBlock_KeepsCount(b) ==
    /\ _state' = [_state EXCEPT ![b] = STATE_CLOSED]
    /\ UNCHANGED <<_failure_count, _opened>>

\* the `with self._lock` block of __call_succeeded
SucceededBlock(b) ==
    /\ _state' = [_state EXCEPT ![b] = STATE_CLOSED]
    /\ _failure_count' = [_failure_count EXCEPT ![b] = 0]
    /\ UNCHANGED _opened

\* faulty variant: the threshold compared with > instead of >=
FailedBlock_OffByOne(b) ==
    LET n == _failure_count[b] + 1
    IN  /\ _failure_count' = [_failure_count EXCEPT ![b] = n]
        /\ IF n > _failure_threshold[b]
           THEN /\ _state' = [_state EXCEPT ![b] = STATE_OPEN]
                /\ _opened' = [_opened EXCEPT ![b] = now]
           ELSE UNCHANGED <<_state, _opened>>

\* faulty variant: _opened stamped only when the breaker was not open already
FailedBlock_NoRestamp(b) ==
    LET n == _failure_count[b] + 1
    IN  /\ _failure_count' = [_failure_count EXCEPT ![b] = n]
        /\ IF n >= _failure_threshold[b]
           THEN /\ _state' = [_state EXCEPT ![b] = STATE_OPEN]
                /\ _opened' = [_opened EXCEPT ![b] =
                                  IF _state[b] = STATE_OPEN THEN @ ELSE now]
           ELSE UNCHANGED <<_state, _opened>>

\* the `with self._lock` block of __call_failed
FailedBlock(b) ==
    LET n == _failure_count[b] + 1
    IN  /\ _failure_count' = [_failure_count EXCEPT ![b] = n]
        /\ IF n >= _failure_threshold[b]
           THEN /\ _state' = [_state EXCEPT ![b] = STATE_OPEN]
                /\ _opened' = [_opened EXCEPT ![b] = now]
           ELSE UNCHANGED <<_state, _opened>>

\* the callers' count of consecutive failures, after __call_failed
NoteFailure(b) ==
    /\ failures' = [failures EXCEPT ![b] = @ + 1]
    /\ failed_at' = [failed_at EXCEPT ![b] = now]

\* the callers' count of consecutive failures, after __call_succeeded
NoteSuccess(b) ==
    /\ failures' = [failures EXCEPT ![b] = 0]
    /\ failed_at' = [failed_at EXCEPT ![b] = None]

\* ------------------------------------------------------ the callers of A

ReadPcs == {"state1", "state2", "state3", "state4"}

\* the recovery window of b is running: b is stored OPEN and
\* now < opened_at + recovery_timeout
WindowRunning(b) ==
    _state[b] = STATE_OPEN /\ now < _opened[b] + _recovery_timeout[b]

\* the recovery window of b is over: b is stored OPEN and
\* now >= opened_at + recovery_timeout
WindowOver(b) ==
    _state[b] = STATE_OPEN /\ now >= _opened[b] + _recovery_timeout[b]

\* which of the three the stored fields of b and the clock amount to
Phase(b) ==
    IF WindowRunning(b) THEN STATE_OPEN
    ELSE IF WindowOver(b) THEN STATE_HALF_OPEN
    ELSE STATE_CLOSED

\* the phase of A over an evaluation of self.state: set when the
\* evaluation begins, "mixed" once a step changed the phase or wrote
\* _state or _opened before the last read; kept until the reader has used
\* the value
Track ==
    stable' = [c \in Callers |->
        IF pc'[c] \in ReadPcs
        THEN IF pc[c] \in ReadPcs
             THEN IF /\ stable[c] = Phase(A)'
                     /\ _state'[A] = _state[A]
                     /\ _opened'[A] = _opened[A]
                  THEN stable[c]
                  ELSE "mixed"
             ELSE Phase(A)'
        ELSE IF pc'[c] \in {"func", "rejected", "done"}
             THEN stable[c]
             ELSE None]

\* wrapper(*args): enter self.call, about to evaluate `if self.opened`
Call(c) ==
    /\ pc[c] = "idle"
    /\ pc' = [pc EXCEPT ![c] = "state1"]
    /\ at' = [at EXCEPT ![c] = "opened"]
    /\ UNCHANGED <<breakerVars, testVars, circuit_breakers, now, st_opened, seen,
                   outcome, recorded, reported, threadVars, lockVars, restamped>>
    /\ Track

\* `return` of the property state, to its reader
StateReturn(c, v) ==
    IF at[c] = "opened"
    THEN \* if self.opened: ... raise / else: func(...)
         /\ seen' = [seen EXCEPT ![c] = v]
         /\ pc' = [pc EXCEPT ![c] = IF v = STATE_OPEN THEN "rejected" ELSE "func"]
         /\ UNCHANGED <<at, reported>>
    ELSE \* finally: record_circuit_breaker_state(self._name, self.state)
         /\ reported' = [reported EXCEPT ![c] = Append(@, v)]
         /\ pc' = [pc EXCEPT ![c] = "done"]
         /\ UNCHANGED <<at, seen>>

\* state: self._state.value == STATE_OPEN
State1(c) ==
    /\ pc[c] = "state1"
    /\ pc' = [pc EXCEPT ![c] = IF _state[A] = STATE_OPEN THEN "state2" ELSE "state4"]
    /\ UNCHANGED <<breakerVars, testVars, circuit_breakers, now, at, st_opened, seen,
                   outcome, recorded, reported, threadVars, lockVars, restamped>>
    /\ Track

\* state -> open_remaining -> open_until: self._opened.value
State2(c) ==
    /\ pc[c] = "state2"
    /\ st_opened' = [st_opened EXCEPT ![c] = _opened[A]]
    /\ pc' = [pc EXCEPT ![c] = "state3"]
    /\ UNCHANGED <<breakerVars, testVars, circuit_breakers, now, at, seen, outcome,
                   recorded, reported, threadVars, lockVars, restamped>>
    /\ Track

\* state -> open_remaining: ... - utcnow(); <= 0: return STATE_HALF_OPEN
State3(c) ==
    /\ pc[c] = "state3"
    /\ IF Elapsed(st_opened[c], _recovery_timeout[A], now)
       THEN StateReturn(c, STATE_HALF_OPEN)
       ELSE /\ pc' = [pc EXCEPT ![c] = "state4"]
            /\ UNCHANGED <<at, seen, reported>>
    /\ st_opened' = [st_opened EXCEPT ![c] = None]
    /\ UNCHANGED <<breakerVars, testVars, circuit_breakers, now, outcome, recorded,
                   threadVars, lockVars, restamped>>
    /\ Track

\* state: return self._state.value
State4(c) ==
    /\ pc[c] = "state4"
    /\ StateReturn(c, _state[A])
    /\ UNCHANGED <<breakerVars, testVars, circuit_breakers, now, st_opened, outcome,
                   recorded, threadVars, lockVars, restamped>>
    /\ Track

\* faulty variant: a rejected call counted as a failure
Rejected_CountsFailure(c) ==
    /\ pc[c] = "rejected"
    /\ outcome' = [outcome EXCEPT ![c] = "rejected"]
    /\ FailedBlock(A)
    /\ pc' = [pc EXCEPT ![c] = "state1"]
    /\ at' = [at EXCEPT ![c] = "finally"]
    /\ UNCHANGED <<_failure_threshold, _recovery_timeout, _name, testVars,
                   circuit_breakers, now, st_opened, seen, recorded, reported,
                   threadVars, lockVars, restamped>>
    /\ Track

\* faulty variant: CircuitBreakerError raised outside the try ... finally
Rejected_OutsideFinally(c) ==
    /\ pc[c] = "rejected"
    /\ outcome' = [outcome EXCEPT ![c] = "rejected"]
    /\ pc' = [pc EXCEPT ![c] = "done"]
    /\ UNCHANGED <<breakerVars, testVars, circuit_breakers, now, at, st_opened,
                   seen, recorded, reported, threadVars, lockVars, restamped>>
    /\ Track

\* call: record_circuit_breaker_failure_total(self._name, self._state.value);
\* raise CircuitBreakerError(self), into finally
Rejected(c) ==
    /\ pc[c] = "rejected"
    /\ outcome' = [outcome EXCEPT ![c] = "rejected"]
    /\ pc' = [pc EXCEPT ![c] = "state1"]
    /\ at' = [at EXCEPT ![c] = "finally"]
    /\ UNCHANGED <<breakerVars, testVars, circuit_breakers, now, st_opened,
                   seen, recorded, reported, threadVars, lockVars, restamped>>
    /\ Track

\* call: func(*args, **kwargs) is entered
FuncInvoke(c) ==
    /\ pc[c] = "func"
    /\ pc' = [pc EXCEPT ![c] = "running"]
    /\ UNCHANGED <<breakerVars, testVars, circuit_breakers, now, at, st_opened, seen,
                   outcome, recorded, reported, threadVars, lockVars, restamped>>
    /\ Track

\* faulty variant: every exception handled as an expected one
AfterFunc_CatchesAll(c, o) ==
    IF o = "success"
    THEN /\ pc' = [pc EXCEPT ![c] = "call_succeeded"]
         /\ UNCHANGED at
    ELSE /\ pc' = [pc EXCEPT ![c] = "call_failed"]
         /\ UNCHANGED at

\* where call goes on when func has returned or raised
AfterFunc(c, o) ==
    IF o = "guarded"
    THEN \* except self._expected_exception: self.__call_failed()
         /\ pc' = [pc EXCEPT ![c] = "call_failed"]
         /\ UNCHANGED at
    ELSE IF o = "success"
    THEN \* self.__call_succeeded()
         /\ pc' = [pc EXCEPT ![c] = "call_succeeded"]
         /\ UNCHANGED at
    ELSE \* any other exception leaves the try block, into finally
         /\ pc' = [pc EXCEPT ![c] = "state1"]
         /\ at' = [at EXCEPT ![c] = "finally"]

\* call: func returns or raises
FuncReturn(c, o) ==
    /\ pc[c] = "running"
    /\ outcome' = [outcome EXCEPT ![c] = o]
    /\ AfterFunc(c, o)
    /\ UNCHANGED <<breakerVars, testVars, circuit_breakers, now, st_opened,
                   seen, recorded, reported, threadVars, lockVars, restamped>>
    /\ Track

\* __call_failed: record_circuit_breaker_failure_total(name, _state.value)
CallFailedRecord(c) ==
    /\ pc[c] = "call_failed"
    /\ recorded' = [recorded EXCEPT ![c] = _state[A]]
    /\ pc' = [pc EXCEPT ![c] = "call_failed_lock"]
    /\ UNCHANGED <<breakerVars, testVars, circuit_breakers, now, at, st_opened, seen,
                   outcome, reported, threadVars, lockVars, restamped>>
    /\ Track

\* __call_failed: with self._lock: ...; then raise, into finally
CallFailedLocked(c) ==
    /\ pc[c] = "call_failed_lock"
    /\ FailedBlock(A)
    /\ NoteFailure(A)
    /\ recorded' = [recorded EXCEPT ![c] = None]
    /\ UNCHANGED seen
    /\ pc' = [pc EXCEPT ![c] = "state1"]
    /\ at' = [at EXCEPT ![c] = "finally"]
    /\ UNCHANGED <<_failure_threshold, _recovery_timeout, _name,
                   circuit_breakers, now, st_opened, outcome, reported,
                   threadVars, lockVars, restamped>>
    /\ Track

\* __call_succeeded: record_circuit_breaker_success_total(name, _state.value)
CallSucceededRecord(c) ==
    /\ pc[c] = "call_succeeded"
    /\ recorded' = [recorded EXCEPT ![c] = _state[A]]
    /\ pc' = [pc EXCEPT ![c] = "call_succeeded_lock"]
    /\ UNCHANGED <<breakerVars, testVars, circuit_breakers, now, at, st_opened, seen,
                   outcome, reported, threadVars, lockVars, restamped>>
    /\ Track

\* __call_succeeded: with self._lock: ...; then return result, into finally
CallSucceededLocked(c) ==
    /\ pc[c] = "call_succeeded_lock"
    /\ SucceededBlock(A)
    /\ NoteSuccess(A)
    /\ recorded' = [recorded EXCEPT ![c] = None]
    /\ UNCHANGED seen
    /\ pc' = [pc EXCEPT ![c] = "state1"]
    /\ at' = [at EXCEPT ![c] = "finally"]
    /\ UNCHANGED <<_failure_threshold, _recovery_timeout, _name,
                   circuit_breakers, now, st_opened, outcome, reported,
                   threadVars, lockVars, restamped>>
    /\ Track

\* call returns or re-raises to the caller of the wrapper
Return(c) ==
    /\ pc[c] = "done"
    /\ pc' = [pc EXCEPT ![c] = "idle"]
    /\ at' = [at EXCEPT ![c] = None]
    /\ outcome' = [outcome EXCEPT ![c] = None]
    /\ reported' = [reported EXCEPT ![c] = <<>>]
    /\ seen' = [seen EXCEPT ![c] = None]
    /\ UNCHANGED <<breakerVars, testVars, circuit_breakers, now, st_opened,
                   recorded, threadVars, lockVars, restamped>>
    /\ Track

\* the clock of datetime.utcnow() advances
Tick ==
    /\ now < MaxTime
    /\ now' = now + 1
    /\ UNCHANGED <<breakerVars, testVars, circuit_breakers, pc, at, st_opened, seen,
                   outcome, recorded, reported, threadVars, lockVars, restamped>>
    /\ Track

\* CircuitBreaker.__init__ of every breaker with the same arguments, then
\* A.decorate(f): the state in which the callers start
Init ==
    /\ \E ft \in 1..MaxThreshold : _failure_threshold = [b \in Breakers |-> ft]
    /\ \E rt \in 1..MaxTimeout : _recovery_timeout = [b \in Breakers |-> rt]
    /\ _name = [b \in Breakers |-> IF b = A THEN "f" ELSE None]
    /\ _failure_count = [b \in Breakers |-> 0]
    /\ _state = [b \in Breakers |-> STATE_CLOSED]
    /\ now = 0
    /\ _opened = [b \in Breakers |-> 0]
    /\ circuit_breakers = [n \in Names |-> IF n = "f" THEN A ELSE None]
    /\ pc = [c \in Callers |-> "idle"]
    /\ at = [c \in Callers |-> None]
    /\ st_opened = [c \in Callers |-> None]
    /\ seen = [c \in Callers |-> None]
    /\ outcome = [c \in Callers |-> None]
    /\ recorded = [c \in Callers |-> None]
    /\ reported = [c \in Callers |-> <<>>]
    /\ stable = [c \in Callers |-> None]
    /\ query = <<>>
    /\ error = None
    /\ message = <<>>
    /\ failures = [b \in Breakers |-> 0]
    /\ failed_at = [b \in Breakers |-> None]
    /\ _lock = None
    /\ tmp = [c \in Callers |-> 0]
    /\ restamped = [c \in Callers |-> FALSE]

Next ==
    \/ \E c \in Callers : Call(c)
    \/ \E c \in Callers : State1(c)
    \/ \E c \in Callers : State2(c)
    \/ \E c \in Callers : State3(c)
    \/ \E c \in Callers : State4(c)
    \/ \E c \in Callers : Rejected(c)
    \/ \E c \in Callers : FuncInvoke(c)
    \/ \E c \in Callers, o \in Outcomes : FuncReturn(c, o)
    \/ \E c \in Callers : CallFailedRecord(c)
    \/ \E c \in Callers : CallFailedLocked(c)
    \/ \E c \in Callers : CallSucceededRecord(c)
    \/ \E c \in Callers : CallSucceededLocked(c)
    \/ \E c \in Callers : Return(c)
    \/ Tick

Spec == Init /\ [][Next]_vars

\* ------------------------------ the callers of A, self._lock made explicit
\* Every access of a multiprocessing.Value takes self._lock (the Values are
\* made with lock=self._lock) and gives it back; inside `with self._lock`
\* the caller holds it already and, the lock being reentrant, goes on.

\* what the callers of A never write
lockFrame == <<_failure_threshold, _recovery_timeout, _name, circuit_breakers,
               outcome, recorded, reported, stable, threadVars>>

\* faulty variant: a lock that excludes nobody
Free_NoExclusion(c) == TRUE

\* faulty variant: a lock that is not reentrant (Lock() instead of RLock())
Free_NotReentrant(c) == _lock = None

\* RLock.acquire() by c does not block
Free(c) == _lock = None \/ _lock = c

\* faulty variant: the threshold compared with > instead of >=
ThresholdReached_Strict(b) == _failure_count[b] > _failure_threshold[b]

\* __call_failed: self._failure_count.value >= self._failure_threshold
ThresholdReached(b) == _failure_count[b] >= _failure_threshold[b]

\* faulty variant: the state is left as it is
Close_Skipped(b) == UNCHANGED _state

\* __call_succeeded: self._state.value = STATE_CLOSED
Close(b) == _state' = [_state EXCEPT ![b] = STATE_CLOSED]

\* what a step does to `restamped`, for the callers that are observed: a
\* caller that is in no call has seen nothing; the step of __call_failed
\* that opens the breaker is seen by every caller that is in a call
Observe ==
    restamped' = [c \in DOMAIN restamped |->
        IF pc'[c] = "idle" THEN FALSE
        ELSE IF \E d \in Callers : /\ pc[d] = "failed_test"
                                   /\ pc'[d] = "failed_release"
                                   /\ ThresholdReached(A)
             THEN TRUE
             ELSE restamped[c]]

\* wrapper(*args): enter self.call, about to evaluate `if self.opened`
Enter(c) ==
    /\ pc[c] = "idle"
    /\ pc' = [pc EXCEPT ![c] = "read_state"]
    /\ at' = [at EXCEPT ![c] = "opened"]
    /\ UNCHANGED <<lockFrame, seen, _failure_count, _state, _opened, now, st_opened,
                   testVars, lockVars>>
    /\ Observe

\* faulty variant: one trial call at a time, a caller that finds HALF_OPEN
\* while another caller's trial call is under way is turned away
Returned_SingleFlight(c, v) ==
    IF at[c] = "opened"
    THEN /\ pc' = [pc EXCEPT ![c] =
                      IF \/ v = STATE_OPEN
                         \/ /\ v = STATE_HALF_OPEN
                            /\ \E d \in Callers \ {c} :
                                  pc[d] = "in_func" /\ seen[d] = STATE_HALF_OPEN
                      THEN "raise"
                      ELSE "in_func"]
         /\ seen' = [seen EXCEPT ![c] = v]
         /\ UNCHANGED at
    ELSE /\ pc' = [pc EXCEPT ![c] = "exit"]
         /\ UNCHANGED <<at, seen>>

\* `return` of the property state, to its reader: `if self.opened` raises
\* or goes on to func; finally hands the state to record_circuit_breaker_state
Returned(c, v) ==
    IF at[c] = "opened"
    THEN /\ pc' = [pc EXCEPT ![c] = IF v = STATE_OPEN THEN "raise" ELSE "in_func"]
         /\ seen' = [seen EXCEPT ![c] = v]
         /\ UNCHANGED at
    ELSE /\ pc' = [pc EXCEPT ![c] = "exit"]
         /\ UNCHANGED <<at, seen>>

\* state: self._state.value == STATE_OPEN
ReadState(c) ==
    /\ pc[c] = "read_state"
    /\ Free(c)
    /\ pc' = [pc EXCEPT ![c] =
                 IF _state[A] = STATE_OPEN THEN "read_opened" ELSE "return_state"]
    /\ UNCHANGED <<lockFrame, seen, _failure_count, _state, _opened, now, at,
                   st_opened, testVars, lockVars>>
    /\ Observe

\* state -> open_remaining -> open_until: self._opened.value
ReadOpened(c) ==
    /\ pc[c] = "read_opened"
    /\ Free(c)
    /\ tmp' = [tmp EXCEPT ![c] = _opened[A]]
    /\ pc' = [pc EXCEPT ![c] = "read_clock"]
    /\ UNCHANGED <<lockFrame, seen, _failure_count, _state, _opened, now, at,
                   st_opened, testVars, _lock>>
    /\ Observe

\* state -> open_remaining: ... - utcnow(); <= 0: return STATE_HALF_OPEN
ReadClock(c) ==
    /\ pc[c] = "read_clock"
    /\ IF Elapsed(tmp[c], _recovery_timeout[A], now)
       THEN Returned(c, STATE_HALF_OPEN)
       ELSE /\ pc' = [pc EXCEPT ![c] = "return_state"]
            /\ UNCHANGED <<at, seen>>
    /\ tmp' = [tmp EXCEPT ![c] = 0]
    /\ UNCHANGED <<lockFrame, _failure_count, _state, _opened, now, st_opened,
                   testVars, _lock>>
    /\ Observe

\* state: return self._state.value
ReturnState(c) ==
    /\ pc[c] = "return_state"
    /\ Free(c)
    /\ Returned(c, _state[A])
    /\ UNCHANGED <<lockFrame, _failure_count, _state, _opened, now, st_opened,
                   testVars, lockVars>>
    /\ Observe

\* call: record_circuit_breaker_failure_total(self._name, self._state.value);
\* raise CircuitBreakerError(self), into finally
Raise(c) ==
    /\ pc[c] = "raise"
    /\ Free(c)
    /\ pc' = [pc EXCEPT ![c] = "read_state"]
    /\ at' = [at EXCEPT ![c] = "finally"]
    /\ seen' = [seen EXCEPT ![c] = None]
    /\ UNCHANGED <<lockFrame, _failure_count, _state, _opened, now, st_opened,
                   testVars, lockVars>>
    /\ Observe

\* call: func(*args, **kwargs) returns or raises
Complete(c, o) ==
    /\ pc[c] = "in_func"
    /\ IF o = "guarded"
       THEN \* except self._expected_exception: self.__call_failed()
            /\ pc' = [pc EXCEPT ![c] = "failed_stats"]
            /\ UNCHANGED at
       ELSE IF o = "success"
       THEN \* self.__call_succeeded()
            /\ pc' = [pc EXCEPT ![c] = "succeeded_stats"]
            /\ UNCHANGED at
       ELSE \* any other exception leaves the try block, into finally
            /\ pc' = [pc EXCEPT ![c] = "read_state"]
            /\ at' = [at EXCEPT ![c] = "finally"]
    /\ seen' = [seen EXCEPT ![c] = None]
    /\ UNCHANGED <<lockFrame, _failure_count, _state, _opened, now, st_opened,
                   testVars, lockVars>>
    /\ Observe

\* __call_failed: record_circuit_breaker_failure_total(name, _state.value)
FailedStats(c) ==
    /\ pc[c] = "failed_stats"
    /\ Free(c)
    /\ pc' = [pc EXCEPT ![c] = "failed_acquire"]
    /\ UNCHANGED <<lockFrame, seen, _failure_count, _state, _opened, now, at,
                   st_opened, testVars, lockVars>>
    /\ Observe

\* __call_failed: with self._lock (entered)
FailedAcquire(c) ==
    /\ pc[c] = "failed_acquire"
    /\ Free(c)
    /\ _lock' = c
    /\ pc' = [pc EXCEPT ![c] = "incr_read"]
    /\ UNCHANGED <<lockFrame, seen, _failure_count, _state, _opened, now, at,
                   st_opened, testVars, tmp>>
    /\ Observe

\* __call_failed: self._failure_count.value += 1, the read
IncrRead(c) ==
    /\ pc[c] = "incr_read"
    /\ Free(c)
    /\ tmp' = [tmp EXCEPT ![c] = _failure_count[A]]
    /\ pc' = [pc EXCEPT ![c] = "incr_write"]
    /\ UNCHANGED <<lockFrame, seen, _failure_count, _state, _opened, now, at,
                   st_opened, testVars, _lock>>
    /\ Observe

\* __call_failed: self._failure_count.value += 1, the write
IncrWrite(c) ==
    /\ pc[c] = "incr_write"
    /\ Free(c)
    /\ _failure_count' = [_failure_count EXCEPT ![A] = tmp[c] + 1]
    /\ NoteFailure(A)
    /\ tmp' = [tmp EXCEPT ![c] = 0]
    /\ pc' = [pc EXCEPT ![c] = "failed_test"]
    /\ UNCHANGED <<lockFrame, seen, _state, _opened, now, at, st_opened, _lock>>
    /\ Observe

\* __call_failed: if self._failure_count.value >= self._failure_threshold:
\* self._state.value = STATE_OPEN; self._opened.value = utcnow()
FailedTest(c) ==
    /\ pc[c] = "failed_test"
    /\ Free(c)
    /\ IF ThresholdReached(A)
       THEN /\ _state' = [_state EXCEPT ![A] = STATE_OPEN]
            /\ _opened' = [_opened EXCEPT ![A] = now]
       ELSE UNCHANGED <<_state, _opened>>
    /\ pc' = [pc EXCEPT ![c] = "failed_release"]
    /\ UNCHANGED <<lockFrame, seen, _failure_count, now, at, st_opened, testVars,
                   lockVars>>
    /\ Observe

\* __call_failed: with self._lock (left); then raise, into finally
FailedRelease(c) ==
    /\ pc[c] = "failed_release"
    /\ _lock' = None
    /\ pc' = [pc EXCEPT ![c] = "read_state"]
    /\ at' = [at EXCEPT ![c] = "finally"]
    /\ UNCHANGED <<lockFrame, seen, _failure_count, _state, _opened, now, st_opened,
                   testVars, tmp>>
    /\ Observe

\* __call_succeeded: record_circuit_breaker_success_total(name, _state.value)
SucceededStats(c) ==
    /\ pc[c] = "succeeded_stats"
    /\ Free(c)
    /\ pc' = [pc EXCEPT ![c] = "succeeded_acquire"]
    /\ UNCHANGED <<lockFrame, seen, _failure_count, _state, _opened, now, at,
                   st_opened, testVars, lockVars>>
    /\ Observe

\* __call_succeeded: with self._lock (entered)
SucceededAcquire(c) ==
    /\ pc[c] = "succeeded_acquire"
    /\ Free(c)
    /\ _lock' = c
    /\ pc' = [pc EXCEPT ![c] = "write_state"]
    /\ UNCHANGED <<lockFrame, seen, _failure_count, _state, _opened, now, at,
                   st_opened, testVars, tmp>>
    /\ Observe

\* __call_succeeded: self._state.value = STATE_CLOSED
WriteState(c) ==
    /\ pc[c] = "write_state"
    /\ Free(c)
    /\ Close(A)
    /\ pc' = [pc EXCEPT ![c] = "write_count"]
    /\ UNCHANGED <<lockFrame, seen, _failure_count, _opened, now, at, st_opened,
                   testVars, lockVars>>
    /\ Observe

\* __call_succeeded: self._failure_count.value = 0
WriteCount(c) ==
    /\ pc[c] = "write_count"
    /\ Free(c)
    /\ _failure_count' = [_failure_count EXCEPT ![A] = 0]
    /\ NoteSuccess(A)
    /\ pc' = [pc EXCEPT ![c] = "succeeded_release"]
    /\ UNCHANGED <<lockFrame, seen, _state, _opened, now, at, st_opened, lockVars>>
    /\ Observe

\* __call_succeeded: with self._lock (left); then return result, into finally
SucceededRelease(c) ==
    /\ pc[c] = "succeeded_release"
    /\ _lock' = None
    /\ pc' = [pc EXCEPT ![c] = "read_state"]
    /\ at' = [at EXCEPT ![c] = "finally"]
    /\ UNCHANGED <<lockFrame, seen, _failure_count, _state, _opened, now, st_opened,
                   testVars, tmp>>
    /\ Observe

\* call returns or re-raises to the caller of the wrapper
Exit(c) ==
    /\ pc[c] = "exit"
    /\ pc' = [pc EXCEPT ![c] = "idle"]
    /\ at' = [at EXCEPT ![c] = None]
    /\ seen' = [seen EXCEPT ![c] = None]
    /\ UNCHANGED <<lockFrame, _failure_count, _state, _opened, now, st_opened,
                   testVars, lockVars>>
    /\ Observe

\* the clock of datetime.utcnow() advances
LockTick ==
    /\ now < MaxTime
    /\ now' = now + 1
    /\ UNCHANGED <<lockFrame, seen, _failure_count, _state, _opened, pc, at,
                   st_opened, testVars, lockVars>>
    /\ Observe

\* the steps of caller c inside a call it has begun
Proceed(c) ==
    \/ ReadState(c)
    \/ ReadOpened(c)
    \/ ReadClock(c)
    \/ ReturnState(c)
    \/ Raise(c)
    \/ FailedStats(c)
    \/ FailedAcquire(c)
    \/ IncrRead(c)
    \/ FailedTest(c)
    \/ FailedRelease(c)
    \/ SucceededStats(c)
    \/ SucceededAcquire(c)
    \/ WriteState(c)
    \/ WriteCount(c)
    \/ SucceededRelease(c)
    \/ Exit(c)

LockNext ==
    \/ \E c \in Callers : Enter(c)
    \/ \E c \in Callers : Proceed(c)
    \/ \E c \in Callers : IncrWrite(c)
    \/ \E c \in Callers, o \in Outcomes : Complete(c, o)
    \/ LockTick

\* A constructed and decorated, the callers about to call it
LockSpec == Init /\ [][LockNext]_vars

\* ------------------- the callers of A for as long as the processes run
\* The clock has no end here.  The code uses _opened only in
\* _opened + _recovery_timeout - utcnow() <= 0 and _failure_count only in
\* _failure_count >= _failure_threshold, so the model keeps the time that
\* has passed since a stamp instead of the stamp (now stays at MaxTimeout, a
\* stamp moves back by one when the clock advances, down to 0, where every
\* window is over), and keeps the count up to MaxCount, which is above
\* every threshold.

MaxCount == MaxThreshold + 1

\* __call_failed: self._failure_count.value += 1, the write
IncrWriteUpTo(c) ==
    /\ pc[c] = "incr_write"
    /\ Free(c)
    /\ _failure_count' = [_failure_count EXCEPT ![A] =
                             IF tmp[c] < MaxCount THEN tmp[c] + 1 ELSE MaxCount]
    /\ tmp' = [tmp EXCEPT ![c] = 0]
    /\ pc' = [pc EXCEPT ![c] = "failed_test"]
    /\ UNCHANGED <<lockFrame, seen, _state, _opened, now, at, st_opened, testVars,
                   _lock>>
    /\ Observe

\* the clock of datetime.utcnow() advances
Advance ==
    /\ _opened' = [b \in Breakers |-> IF _opened[b] > 0 THEN _opened[b] - 1 ELSE 0]
    /\ tmp' = [c \in Callers |->
                  IF pc[c] = "read_clock" /\ tmp[c] > 0
                  THEN tmp[c] - 1
                  ELSE tmp[c]]
    /\ UNCHANGED <<lockFrame, seen, _failure_count, _state, now, pc, at, st_opened,
                   testVars, _lock>>
    /\ Observe

\* A constructed and decorated at time MaxTimeout; no caller is observed
FairInit ==
    /\ \E ft \in 1..MaxThreshold : _failure_threshold = [b \in Breakers |-> ft]
    /\ \E rt \in 1..MaxTimeout : _recovery_timeout = [b \in Breakers |-> rt]
    /\ _name = [b \in Breakers |-> IF b = A THEN "f" ELSE None]
    /\ _failure_count = [b \in Breakers |-> 0]
    /\ _state = [b \in Breakers |-> STATE_CLOSED]
    /\ now = MaxTimeout
    /\ _opened = [b \in Breakers |-> MaxTimeout]
    /\ circuit_breakers = [n \in Names |-> IF n = "f" THEN A ELSE None]
    /\ pc = [c \in Callers |-> "idle"]
    /\ at = [c \in Callers |-> None]
    /\ st_opened = [c \in Callers |-> None]
    /\ seen = [c \in Callers |-> None]
    /\ outcome = [c \in Callers |-> None]
    /\ recorded = [c \in Callers |-> None]
    /\ reported = [c \in Callers |-> <<>>]
    /\ stable = [c \in Callers |-> None]
    /\ query = <<>>
    /\ error = None
    /\ message = <<>>
    /\ failures = [b \in Breakers |-> 0]
    /\ failed_at = [b \in Breakers |-> None]
    /\ _lock = None
    /\ tmp = [c \in Callers |-> 0]
    /\ restamped = <<>>

\* what caller c does once it has begun a call, the wrapped function
\* returning or raising included
Finish(c) ==
    \/ Proceed(c)
    \/ IncrWriteUpTo(c)
    \/ \E o \in Outcomes : Complete(c, o)

FairNext ==
    \/ \E c \in Callers : Enter(c)
    \/ \E c \in Callers : Finish(c)
    \/ Advance

\* the scheduler is fair to every caller, the lock to every caller that
\* waits for it, and the clock advances
FairSpec ==
    /\ FairInit
    /\ [][FairNext]_vars
    /\ \A c \in Callers : SF_vars(Finish(c))
    /\ WF_vars(Advance)

\* ------------------------------------- CircuitBreakerMonitor, one thread

\* faulty variant: a name that is taken keeps its breaker
register_FirstWins(b, n) ==
    circuit_breakers' = [circuit_breakers EXCEPT ![n] =
                            IF @ = None THEN b ELSE @]

\* register: cls.circuit_breakers[circuit_breaker.name] = circuit_breaker
register(b, n) == circuit_breakers' = [circuit_breakers EXCEPT ![n] = b]

\* get: cls.circuit_breakers.get(name)
get(n) == IF n \in Names THEN circuit_breakers[n] ELSE None

\* get_circuits: cls.circuit_breakers.values(), in any order a dict may keep
get_circuits ==
    LET regd == {n \in Names : circuit_breakers[n] # None}
    IN  {[i \in 1..Cardinality(regd) |-> circuit_breakers[f[i]]] :
            f \in {g \in [1..Cardinality(regd) -> regd] :
                      \A i, j \in 1..Cardinality(regd) : i # j => g[i] # g[j]}}

\* get_open: for circuit in get_circuits(): if circuit.opened: yield circuit
RECURSIVE get_open(_)
get_open(circuits) ==
    IF circuits = <<>> THEN <<>>
    ELSE IF opened(Head(circuits))
         THEN <<Head(circuits)>> \o get_open(Tail(circuits))
         ELSE get_open(Tail(circuits))

\* get_closed: for circuit in get_circuits(): if circuit.closed: yield circuit
RECURSIVE get_closed(_)
get_closed(circuits) ==
    IF circuits = <<>> THEN <<>>
    ELSE IF closed(Head(circuits))
         THEN <<Head(circuits)>> \o get_closed(Tail(circuits))
         ELSE get_closed(Tail(circuits))

\* faulty variant: true when every circuit is closed
all_closed_EveryClosed(circuits) == Len(get_closed(circuits)) = Len(circuits)

\* all_closed: len(list(cls.get_open())) == 0
all_closed(circuits) == Len(get_open(circuits)) = 0

\* round(x) of Python 2 for x = ticks / TicksPerSecond: to the nearest
\* integer, halves away from zero
round(ticks) ==
    IF ticks >= 0
    THEN (2 * ticks + TicksPerSecond) \div (2 * TicksPerSecond)
    ELSE -((2 * (-ticks) + TicksPerSecond) \div (2 * TicksPerSecond))

\* CircuitBreakerError.__str__: the name, open_until, failure_count and
\* round(open_remaining) of the breaker, read when the message is rendered
str(b) ==
    [name |-> _name[b],
     open_until |-> open_until(_opened[b], _recovery_timeout[b]),
     failures |-> _failure_count[b],
     remaining |-> round(open_remaining(_opened[b], _recovery_timeout[b], now))]

\* decorate(function): name the breaker after the function if it has no
\* name, CircuitBreakerMonitor.register(self)
Decorate(b, fn) ==
    LET n == IF _name[b] = None THEN fn ELSE _name[b]
    IN  /\ _name' = [_name EXCEPT ![b] = n]
        /\ register(b, n)
        /\ query' = <<>>
        /\ message' = <<>>
        /\ UNCHANGED <<_failure_threshold, _recovery_timeout, _failure_count,
                       _state, _opened, now,
                       callerVars, lockVars, restamped, testVars, error>>

\* the wrapper of a decorated breaker called by the one thread: call(func)
\* from entry to exit, func doing o; the thread catches what is raised
WholeCall(b, o) ==
    /\ _name[b] # None
    /\ IF opened(b)
       THEN \* raise CircuitBreakerError(self)
            /\ error' = b
            /\ UNCHANGED <<_failure_count, _state, _opened, testVars>>
       ELSE /\ IF o = "guarded" THEN FailedBlock(b) /\ NoteFailure(b)
               ELSE IF o = "success" THEN SucceededBlock(b) /\ NoteSuccess(b)
               ELSE UNCHANGED <<_failure_count, _state, _opened, testVars>>
            /\ UNCHANGED error
    /\ query' = <<>>
    /\ message' = <<>>
    /\ UNCHANGED <<_failure_threshold, _recovery_timeout, _name,
                   circuit_breakers, now, callerVars, lockVars, restamped>>

\* the clock advances between two operations of the thread
MonitorTick ==
    /\ now < MaxTime
    /\ now' = now + 1
    /\ query' = <<>>
    /\ message' = <<>>
    /\ UNCHANGED <<breakerVars, testVars, circuit_breakers,
                   callerVars, lockVars, restamped, error>>

\* the thread asks all_closed(), list(get_open()) and list(get_closed())
Query ==
    /\ \E circuits \in get_circuits :
          query' = <<[all_closed |-> all_closed(circuits),
                      get_open |-> get_open(circuits),
                      get_closed |-> get_closed(circuits)]>>
    /\ message' = <<>>
    /\ UNCHANGED <<breakerVars, testVars, circuit_breakers, now,
                   callerVars, lockVars, restamped,
                   error>>

\* the thread renders the CircuitBreakerError it caught: str(e)
Render ==
    /\ error # None
    /\ message' = <<str(error)>>
    /\ query' = <<>>
    /\ UNCHANGED <<breakerVars, testVars, circuit_breakers, now,
                   callerVars, lockVars, restamped,
                   error>>

\* every breaker constructed with the same arguments and no name, nothing
\* decorated yet
MonitorInit ==
    /\ \E ft \in 1..MaxThreshold : _failure_threshold = [b \in Breakers |-> ft]
    /\ \E rt \in 1..MaxTimeout : _recovery_timeout = [b \in Breakers |-> rt]
    /\ _name = [b \in Breakers |-> None]
    /\ _failure_count = [b \in Breakers |-> 0]
    /\ _state = [b \in Breakers |-> STATE_CLOSED]
    /\ now = 0
    /\ _opened = [b \in Breakers |-> 0]
    /\ circuit_breakers = [n \in Names |-> None]
    /\ pc = [c \in Callers |-> "idle"]
    /\ at = [c \in Callers |-> None]
    /\ st_opened = [c \in Callers |-> None]
    /\ seen = [c \in Callers |-> None]
    /\ outcome = [c \in Callers |-> None]
    /\ recorded = [c \in Callers |-> None]
    /\ reported = [c \in Callers |-> <<>>]
    /\ stable = [c \in Callers |-> None]
    /\ query = <<>>
    /\ error = None
    /\ message = <<>>
    /\ failures = [b \in Breakers |-> 0]
    /\ failed_at = [b \in Breakers |-> None]
    /\ _lock = None
    /\ tmp = [c \in Callers |-> 0]
    /\ restamped = [c \in Callers |-> FALSE]

MonitorNext ==
    \/ \E b \in Breakers, fn \in Names : Decorate(b, fn)
    \/ \E b \in Breakers, o \in Outcomes : WholeCall(b, o)
    \/ MonitorTick
    \/ Query
    \/ Render

MonitorSpec == MonitorInit /\ [][MonitorNext]_vars

\* ------------------------------------------------------------ the claims

\* C1: once the wrapped function of a breaker with threshold T >= 1 has
\* raised T (or more) expected exceptions in a row since its last return,
\* and less than recovery_timeout has passed since the last of them, the
\* state of the breaker reads OPEN.
C1_OpenAfterThreshold ==
    \A b \in Breakers :
        (/\ failures[b] >= _failure_threshold[b]
         /\ now < failed_at[b] + _recovery_timeout[b])
        => state(b) = STATE_OPEN

\* C1 witness: threshold 1, one failure, the clock has moved on and the
\* window is still running
C1_Witness ==
    /\ _failure_threshold[A] = 1
    /\ failures[A] = 1
    /\ failed_at[A] < now
    /\ now < failed_at[A] + _recovery_timeout[A]
    /\ state(A) = STATE_OPEN

\* C2 as claimed: while the window is running, no caller enters the wrapped
\* function, whatever the interleaving.
C2_NeverInvokedWhileOpen ==
    [][\A c \in Callers :
          ~(WindowRunning(A) /\ pc[c] = "func" /\ pc'[c] = "running")]_vars

\* C2 amended: a call whose evaluation of `self.opened` ran from its first
\* to its last read with the window running, and with no write of _state
\* or _opened by another caller in between, is rejected and does not reach
\* the wrapped function; this for both callers and every interleaving.
C2_RejectedWhenOpenThroughout ==
    \A c \in Callers :
        (pc[c] \in {"func", "rejected"} /\ stable[c] = STATE_OPEN)
        => (pc[c] = "rejected" /\ seen[c] = STATE_OPEN)

\* C2 witness: a caller rejected after a check made with the window running
\* while the other caller is inside its own call
C2_Witness ==
    \E c, d \in Callers :
        /\ c # d
        /\ pc[c] = "rejected" /\ stable[c] = STATE_OPEN
        /\ pc[d] \notin {"idle", "done"}

\* C3: when the breaker is stored OPEN and now >= opened_at +
\* recovery_timeout, the boundary included, its state reads HALF_OPEN, and a
\* call whose check is made then (from first to last read) enters the
\* wrapped function instead of being rejected.
C3_HalfOpenWhenElapsed ==
    /\ \A b \in Breakers : WindowOver(b) => state(b) = STATE_HALF_OPEN
    /\ \A c \in Callers :
          stable[c] = STATE_HALF_OPEN
          => /\ pc[c] # "rejected"
             /\ pc[c] = "func" => seen[c] = STATE_HALF_OPEN
             /\ pc[c] = "done" => reported[c] = <<STATE_HALF_OPEN>>

\* C3 witness: a caller admitted at the very boundary
C3_Witness ==
    \E c \in Callers :
        /\ pc[c] = "func" /\ stable[c] = STATE_HALF_OPEN
        /\ seen[c] = STATE_HALF_OPEN
        /\ _state[A] = STATE_OPEN
        /\ now = _opened[A] + _recovery_timeout[A]

\* C4: the step that completes __call_succeeded of a call admitted in CLOSED
\* or HALF_OPEN leaves failure_count 0 and the state reading CLOSED,
\* whatever the count was.
C4_SuccessResets ==
    [][\A c \in Callers :
          (pc[c] = "call_succeeded_lock" /\ pc'[c] # "call_succeeded_lock")
          => /\ seen[c] \in {STATE_CLOSED, STATE_HALF_OPEN}
             /\ _failure_count'[A] = 0
             /\ state(A)' = STATE_CLOSED]_vars

\* C4 witness: a trial call admitted in HALF_OPEN has just succeeded, and no
\* other call is under way
C4_Witness ==
    \E c \in Callers :
        /\ outcome[c] = "success" /\ seen[c] = STATE_HALF_OPEN
        /\ pc[c] = "state1" /\ at[c] = "finally"
        /\ \A d \in Callers \ {c} : pc[d] = "idle"
        /\ _failure_count[A] = 0 /\ state(A) = STATE_CLOSED

\* C5 as claimed: the step that completes __call_failed of a call admitted
\* in HALF_OPEN sets _opened to the current time and leaves the breaker
\* stored OPEN and reading OPEN, its window ending a full recovery_timeout
\* later.
C5_TrialFailureReopens ==
    [][\A c \in Callers :
          (/\ pc[c] = "call_failed_lock" /\ pc'[c] # "call_failed_lock"
           /\ seen[c] = STATE_HALF_OPEN)
          => /\ _opened'[A] = now
             /\ _state'[A] = STATE_OPEN
             /\ state(A)' = STATE_OPEN
             /\ open_until(_opened'[A], _recovery_timeout[A])
                   = now + _recovery_timeout[A]]_vars

\* C5 amended: the same of a call admitted in HALF_OPEN whose failure finds
\* the breaker still stored OPEN, that is when no other call has succeeded
\* since the admission.
C5_TrialFailureReopensIfStillOpen ==
    [][\A c \in Callers :
          (/\ pc[c] = "call_failed_lock" /\ pc'[c] # "call_failed_lock"
           /\ seen[c] = STATE_HALF_OPEN
           /\ _state[A] = STATE_OPEN)
          => /\ _opened'[A] = now
             /\ _state'[A] = STATE_OPEN
             /\ state(A)' = STATE_OPEN
             /\ open_until(_opened'[A], _recovery_timeout[A])
                   = now + _recovery_timeout[A]]_vars

\* C5 witness: a trial call admitted in HALF_OPEN has just failed with the
\* breaker open since an earlier time, which is now stamped anew
C5_Witness ==
    \E c \in Callers :
        /\ outcome[c] = "guarded" /\ seen[c] = STATE_HALF_OPEN
        /\ pc[c] = "state1" /\ at[c] = "finally"
        /\ \A d \in Callers \ {c} : pc[d] = "idle"
        /\ failures[A] > _failure_threshold[A]
        /\ _opened[A] = now /\ now >= _recovery_timeout[A]
        /\ state(A) = STATE_OPEN

\* C6: no step of a call whose function raised an exception other than the
\* expected one writes failure_count, _state or _opened, whether the call
\* was admitted in CLOSED or in HALF_OPEN; the call goes from the function
\* straight to finally and the exception reaches the caller.
C6_UnguardedLeavesBreaker ==
    [][\A c \in Callers :
          (/\ pc'[c] # pc[c]
           /\ (outcome[c] = "unguarded" \/ outcome'[c] = "unguarded"))
          => /\ _failure_count' = _failure_count
             /\ _state' = _state
             /\ _opened' = _opened
             /\ pc'[c] \in ReadPcs \cup {"done", "idle"}
             /\ pc'[c] # "idle" => outcome'[c] = "unguarded"]_vars

\* C6 witness: a trial call admitted in HALF_OPEN ends with the other
\* exception, the count still at or above the threshold
C6_Witness ==
    \E c \in Callers :
        /\ pc[c] = "done" /\ outcome[c] = "unguarded"
        /\ seen[c] = STATE_HALF_OPEN
        /\ _failure_count[A] >= _failure_threshold[A]
        /\ _state[A] = STATE_OPEN

\* C7: a call that returns or raises has handed the state of the breaker to
\* record_circuit_breaker_state exactly once, whatever its outcome, and not
\* before its __call_succeeded or __call_failed; the state handed over is
\* the one the breaker had during that evaluation (when it had one state
\* only, and no field was written meanwhile).
C7_StateReportedOnce ==
    \A c \in Callers :
        /\ pc[c] = "done"
           => /\ Len(reported[c]) = 1
              /\ outcome[c] \in Outcomes \cup {"rejected"}
              /\ stable[c] # "mixed" => reported[c][1] = stable[c]
        /\ pc[c] # "done" => reported[c] = <<>>

\* C7 witness: the call whose failure opened the breaker has reported OPEN
C7_Witness ==
    \E c \in Callers :
        /\ pc[c] = "done" /\ outcome[c] = "guarded"
        /\ failures[A] = _failure_threshold[A]
        /\ stable[c] = STATE_OPEN
        /\ reported[c] = <<STATE_OPEN>>

\* C8 as claimed: of every registered breaker exactly one of `opened` and
\* `closed` is true, in every reachable state.
C8_ExactlyOneOfOpenedClosed ==
    \A n \in Names :
        circuit_breakers[n] # None
        => (opened(circuit_breakers[n]) # closed(circuit_breakers[n]))

\* C8 amended: of every registered breaker `opened` and `closed` are never
\* both true, and exactly one of them is true unless the breaker is stored
\* OPEN with now >= opened_at + recovery_timeout (it reads HALF_OPEN), when
\* neither is.
C8_OneOfOpenedClosedUnlessHalfOpen ==
    \A n \in Names :
        circuit_breakers[n] # None
        => LET b == circuit_breakers[n]
           IN  /\ ~(opened(b) /\ closed(b))
               /\ (opened(b) \/ closed(b)) <=> ~WindowOver(b)

\* C8 witness: a registered breaker at the very end of its window, neither
\* opened nor closed
C8_Witness ==
    \E n \in Names :
        /\ circuit_breakers[n] # None
        /\ _state[circuit_breakers[n]] = STATE_OPEN
        /\ now = _opened[circuit_breakers[n]] + _recovery_timeout[circuit_breakers[n]]
        /\ ~opened(circuit_breakers[n])
        /\ ~closed(circuit_breakers[n])

\* C9: all_closed() is true if and only if no registered breaker reads
\* `opened`, that is if and only if get_open() yields nothing.
C9_AllClosedIffNoneOpened ==
    query # <<>>
    => /\ query[1].all_closed
          <=> \A n \in Names :
                 circuit_breakers[n] # None => ~opened(circuit_breakers[n])
       /\ query[1].all_closed <=> query[1].get_open = <<>>

\* C9 witness: two breakers registered, one of them reading HALF_OPEN and
\* none OPEN, and all_closed() has answered true
C9_Witness ==
    /\ query # <<>>
    /\ query[1].all_closed
    /\ Len(query[1].get_closed) = 1
    /\ \A n \in Names : circuit_breakers[n] # None
    /\ \E n \in Names : state(circuit_breakers[n]) = STATE_HALF_OPEN

\* C10: the message of a CircuitBreakerError, whenever it is rendered, shows
\* a number of remaining seconds that is not negative.
C10_RemainingNotNegative ==
    message # <<>> => message[1].remaining >= 0

\* C11: get(name) returns the breaker most recently registered under that
\* name (every decoration registers the breaker under its name, and leaves
\* the entries of the other names alone), get of a name no breaker was
\* registered under returns None, and a name once registered stays
\* registered.
C11_GetReturnsLastRegistered ==
    [][/\ \A b \in Breakers, fn \in Names :
             Decorate(b, fn)
             => /\ _name'[b] \in Names
                /\ circuit_breakers'[_name'[b]] = b
                /\ \A n \in Names \ {_name'[b]} : get(n)' = get(n)
       /\ \A n \in Names : get(n) # None => get(n)' # None
       /\ \A n \in Names :
             (\A b \in Breakers : _name[b] # n) => get(n) = None
       /\ \A n \in Names :
             (\A b \in Breakers : _name'[b] # n) => get(n)' = None]_vars

\* C11 witness: two breakers were registered under one name, and get
\* returns the one registered last, which is not the one registered first
C11_Witness ==
    /\ _name[A] = "f" /\ _name["B"] = "f"
    /\ get("f") = "B"
    /\ get("g") = None
    /\ _failure_count[A] > 0

\* C12: in every state the callers of a breaker can bring about, the states
\* inside a transition included, a breaker stored OPEN has a failure_count
\* at or above its failure_threshold.
C12_OpenImpliesCountAtThreshold ==
    \A b \in Breakers :
        _state[b] = STATE_OPEN => _failure_count[b] >= _failure_threshold[b]

\* C12 witness: the breaker is stored OPEN, its count has gone beyond the
\* threshold, and a caller is inside a transition
C12_Witness ==
    /\ _state[A] = STATE_OPEN
    /\ _failure_count[A] > _failure_threshold[A]
    /\ _lock # None

\* C13 as claimed: while the breaker is stored OPEN and its window has not
\* elapsed, no step of any caller stores CLOSED.
C13_StaysOpenUntilElapsed ==
    [][WindowRunning(A) => _state'[A] = STATE_OPEN]_vars

\* C13 amended: while the breaker is stored OPEN and its window has not
\* elapsed, only the success-transition of a call that had begun before the
\* breaker was last opened stores CLOSED; a call begun since cannot.
C13_OnlyEarlierCallsCloseEarly ==
    [][(WindowRunning(A) /\ _state'[A] # STATE_OPEN)
       => \E c \in Callers : /\ pc[c] = "write_state"
                             /\ pc'[c] = "write_count"
                             /\ restamped[c]]_vars

\* C13 witness: a call begun after the breaker was opened is about to store
\* CLOSED, the window being over
C13_Witness ==
    \E c \in Callers :
        /\ pc[c] = "write_state"
        /\ ~restamped[c]
        /\ WindowOver(A)
        /\ now = _opened[A] + _recovery_timeout[A]

\* C14: the failure_count of a breaker is the number of failure-transitions
\* its callers have made since the last success-transition (or since
\* construction): every `+= 1` counts, whatever the interleaving.
C14_NoLostIncrement ==
    \A b \in Breakers : _failure_count[b] = failures[b]

\* C14 witness: both callers have just made a failure-transition in calls
\* that overlap, and the count is 2
C14_Witness ==
    /\ \A c \in Callers : pc[c] = "read_state" /\ at[c] = "finally"
    /\ failures[A] = Cardinality(Callers)
    /\ _failure_count[A] = Cardinality(Callers)
    /\ _lock = None

\* C15: the state that __call_succeeded or __call_failed hands to the stats
\* is the stored state as it is when the same call's `with self._lock`
\* block runs, no other caller's transition having come in between.
C15_StatsStateIsStateBeforeTransition ==
    [][\A c \in Callers :
          (/\ pc[c] \in {"call_failed_lock", "call_succeeded_lock"}
           /\ pc'[c] # pc[c])
          => recorded[c] = _state[A]]_vars

C17_RejectionLeavesBreaker ==
    [][\A c \in Callers :
          (/\ pc'[c] # pc[c]
           /\ (pc[c] = "rejected" \/ outcome[c] = "rejected"))
          => /\ _failure_count' = _failure_count
             /\ _state' = _state
             /\ _opened' = _opened
             /\ pc'[c] \in ReadPcs \cup {"done", "idle"}]_vars

\* C17 witness: a call has been rejected some time after the breaker was
\* opened, no other call is under way, and the count and the stamp are
\* those the opening left
C17_Witness ==
    \E c \in Callers :
        /\ pc[c] = "done" /\ outcome[c] = "rejected"
        /\ \A d \in Callers \ {c} : pc[d] = "idle"
        /\ _state[A] = STATE_OPEN
        /\ _failure_count[A] = _failure_threshold[A]
        /\ failures[A] = _failure_threshold[A]
        /\ _opened[A] = failed_at[A]
        /\ _opened[A] < now

C19_EventuallyNotOpen ==
    state(A) = STATE_OPEN ~> state(A) # STATE_OPEN

\* C19 amended: the state of the breaker is not OPEN for ever with every
\* call rejected: again and again the state is not OPEN or a caller is in
\* the wrapped function; and when one of the callers makes no call, the
\* state, whenever it is OPEN, later is not.
C19_NotRejectedForEver ==
    /\ []<>(state(A) # STATE_OPEN \/ \E c \in Callers : pc[c] = "in_func")
    /\ \A d \in Callers :
          [](pc[d] = "idle")
          => (state(A) = STATE_OPEN ~> state(A) # STATE_OPEN)

\* C19 witness: the breaker had opened, its window is over, the state reads
\* HALF_OPEN and a call has been admitted
C19_Witness ==
    /\ _state[A] = STATE_OPEN
    /\ _failure_count[A] >= _failure_threshold[A]
    /\ state(A) = STATE_HALF_OPEN
    /\ \E c \in Callers : pc[c] = "in_func" /\ seen[c] = STATE_HALF_OPEN
    /\ \E c \in Callers : pc[c] = "idle"

\* C20: a caller whose check finds the recovery window over is admitted as
\* a trial call whatever the other callers are doing, other trial calls
\* under way included: nothing limits the trial calls to one at a time.
C20_TrialsNotSingleFlight ==
    [][\A c \in Callers :
          (/\ pc[c] = "read_clock" /\ pc'[c] # "read_clock"
           /\ at[c] = "opened"
           /\ Elapsed(tmp[c], _recovery_timeout[A], now))
          => /\ pc'[c] = "in_func"
             /\ seen'[c] = STATE_HALF_OPEN]_vars

\* C20 witness: the window is over and every caller is in the wrapped
\* function at the same time, each admitted on reading HALF_OPEN
C20_Witness ==
    /\ WindowOver(A)
    /\ \A c \in Callers : pc[c] = "in_func" /\ seen[c] = STATE_HALF_OPEN

====
